---------------------------- MODULE Spec2Model ----------------------------
(***************************************************************************)
(* A model of seasonals.py: the Date ordering, the per-page media filter,  *)
(* the recursive pagination of get_anime, the season inference of          *)
(* get_season, and the two commands md_summary and user_progress.          *)
(*                                                                         *)
(* Optional values are modelled as sequences of length at most one:        *)
(* None is <<>> and a present value v is <<v>>.  Strings the program       *)
(* transforms (the media format) are sequences of one-character strings.   *)
(***************************************************************************)
EXTENDS Integers, Sequences, FiniteSets, TLC

VARIABLES
    cmd,        \* the command being run: "md_summary" or "user_progress"
    pc,         \* the command's position
    nowYear,    \* datetime.datetime.now().year
    nowMonth,   \* datetime.datetime.now().month
    argYear,    \* the --year option (Optional[int])
    argSeason,  \* the --season option (Optional[MediaSeason])
    year,       \* the year get_season returned (Optional until it ran)
    season,     \* the season get_season returned (Optional until it ran)
    requests,   \* the variables of every request get_anime posted, in order
    responses,  \* the AnimePage of every response get_anime received, in order
    stack,      \* the get_anime frames awaiting a recursive call: page and medias
    medias,     \* the list the outermost get_anime returned
    userResp,   \* the response get_userlist received (Optional)
    userList,   \* the entries get_userlist returned
    watched,    \* user_progress's watched list
    remaining,  \* user_progress's remaining list
    out,        \* everything printed to standard output, in order
    dates,      \* three Date values under comparison
    cmp         \* the results of comparing them (Optional)

vars == <<cmd, pc, nowYear, nowMonth, argYear, argSeason, year, season,
          requests, responses, stack, medias, userResp, userList,
          watched, remaining, out, dates, cmp>>

dateVars == <<dates, cmp>>
inputVars == <<cmd, nowYear, nowMonth, argYear, argSeason>>
animeVars == <<requests, responses, stack, medias>>
userVars == <<userResp, userList, watched, remaining>>

None == <<>>
Some(v) == <<v>>

(***************************************************************************)
(* Bounds of the model.                                                    *)
(***************************************************************************)
NumYears == 2       \* distinct present years of a compared Date
NumMonths == 2      \* distinct present months of a compared Date
NumDays == 2        \* distinct present days of a compared Date
MaxFilterLen == 2   \* medias on the page the filter is checked on
MaxMedia == 3       \* medias the server serves over all pages of a season
MaxPages == 3       \* pages get_anime requests before the model stops it
MaxEntries == 2     \* entries over all lists of a user's collection
MaxLists == 2       \* lists of a user's collection

(***************************************************************************)
(* Date (class Date).                                                      *)
(***************************************************************************)
Date(y, m, d) == [year |-> y, month |-> m, day |-> d]

Date__eq__(self, other) ==
    <<self.year, self.month, self.day>> = <<other.year, other.month, other.day>>

Date__lt__(self, other) ==
    IF self.year = None THEN TRUE
    ELSE IF other.year = None THEN FALSE
    ELSE IF self.year[1] < other.year[1] THEN TRUE
    ELSE IF self.month = None THEN TRUE
    ELSE IF other.month = None THEN FALSE
    ELSE IF self.month[1] < other.month[1] THEN TRUE
    ELSE IF self.day = None THEN TRUE
    ELSE IF other.day = None THEN FALSE
    ELSE IF self.day[1] < other.day[1] THEN TRUE
    ELSE FALSE

(***************************************************************************)
(* Media and its format strings.                                           *)
(***************************************************************************)
TV == <<"T", "V">>
TV_SHORT == <<"T", "V", "_", "S", "H", "O", "R", "T">>
MOVIE == <<"M", "O", "V", "I", "E">>
OVA == <<"O", "V", "A">>
SPECIAL == <<"S", "P", "E", "C", "I", "A", "L">>
MUSIC == <<"M", "U", "S", "I", "C">>
Unknown == <<"U", "n", "k", "n", "o", "w", "n">>

Media(id, startDate, isAdult, edges, title, format) ==
    [id |-> id, startDate |-> startDate, isAdult |-> isAdult,
     relations |-> edges, title |-> title, format |-> format]

AnimePage(hasNextPage, media) == [hasNextPage |-> hasNextPage, media |-> media]

MediaSeason == {"WINTER", "SPRING", "SUMMER", "FALL"}

MediaSeasonValue(name) ==
    CASE name = "WINTER" -> "hivers"
      [] name = "SPRING" -> "printemps"
      [] name = "SUMMER" -> "été"
      [] name = "FALL" -> "automne"

(***************************************************************************)
(* get_anime: the filter loop over one page.                               *)
(***************************************************************************)
RECURSIVE AnyRelation(_, _)
AnyRelation(edges, i) ==
    IF i > Len(edges) THEN FALSE
    ELSE IF edges[i] \in {"PREQUEL", "SEQUEL"} THEN TRUE
    ELSE AnyRelation(edges, i + 1)

\* a variant of SkipsMedia whose format test forgets MUSIC
SkipsMediaWithoutMusic(media) ==
    IF media.format \in {Some(MOVIE), Some(OVA), Some(SPECIAL)}
    THEN TRUE
    ELSE IF media.isAdult THEN TRUE
    ELSE IF AnyRelation(media.relations, 1) THEN TRUE
    ELSE FALSE

SkipsMedia(media) ==
    IF media.format \in {Some(MOVIE), Some(OVA), Some(SPECIAL), Some(MUSIC)}
    THEN TRUE
    ELSE IF media.isAdult THEN TRUE
    ELSE IF AnyRelation(media.relations, 1) THEN TRUE
    ELSE FALSE

RECURSIVE FilterLoop(_, _, _)
FilterLoop(page, i, acc) ==
    IF i > Len(page) THEN acc
    ELSE IF SkipsMedia(page[i]) THEN FilterLoop(page, i + 1, acc)
    ELSE FilterLoop(page, i + 1, Append(acc, page[i]))

FilterPage(page) == FilterLoop(page, 1, <<>>)

(***************************************************************************)
(* get_anime: the return path of the recursion.  The innermost frame       *)
(* returns its medias; every caller extends its own medias with the value  *)
(* returned to it and returns the result.                                  *)
(***************************************************************************)
\* a variant of Unwind that puts the returned medias before the caller's
RECURSIVE UnwindReturnedFirst(_, _)
UnwindReturnedFirst(frames, ret) ==
    IF frames = <<>> THEN ret
    ELSE UnwindReturnedFirst(SubSeq(frames, 1, Len(frames) - 1),
                             ret \o frames[Len(frames)].medias)

RECURSIVE Unwind(_, _)
Unwind(frames, ret) ==
    IF frames = <<>> THEN ret
    ELSE Unwind(SubSeq(frames, 1, Len(frames) - 1),
                frames[Len(frames)].medias \o ret)

(***************************************************************************)
(* get_season.                                                             *)
(***************************************************************************)
get_season_year(y, dateYear, dateMonth) ==
    IF y = None
    THEN (IF dateMonth < 12 THEN dateYear ELSE dateYear + 1)
    ELSE y[1]

\* a variant of get_season_season that forgets December
get_season_season_no_december(s, dateMonth) ==
    IF s = None
    THEN (IF dateMonth < 2 THEN "WINTER"
          ELSE IF dateMonth < 5 THEN "SPRING"
          ELSE IF dateMonth < 8 THEN "SUMMER"
          ELSE "FALL")
    ELSE s[1]

get_season_season(s, dateMonth) ==
    IF s = None
    THEN (IF dateMonth < 2 \/ dateMonth = 12 THEN "WINTER"
          ELSE IF dateMonth < 5 THEN "SPRING"
          ELSE IF dateMonth < 8 THEN "SUMMER"
          ELSE "FALL")
    ELSE s[1]

(***************************************************************************)
(* md_summary: toolz.groupby, sorted, and the printed lines.               *)
(***************************************************************************)
RECURSIVE GroupIndex(_, _, _)
GroupIndex(groups, key, i) ==
    IF i > Len(groups) THEN 0
    ELSE IF groups[i].key = key THEN i
    ELSE GroupIndex(groups, key, i + 1)

RECURSIVE GroupLoop(_, _, _)
GroupLoop(seq, i, groups) ==
    IF i > Len(seq) THEN groups
    ELSE LET key == seq[i].format
             g == GroupIndex(groups, key, 1)
         IN IF g = 0
            THEN GroupLoop(seq, i + 1,
                           Append(groups, [key |-> key, items |-> <<seq[i]>>]))
            ELSE GroupLoop(seq, i + 1,
                           [groups EXCEPT ![g].items = Append(@, seq[i])])

\* a variant of groupby that only merges consecutive medias of one format
RECURSIVE ConsecutiveLoop(_, _, _)
ConsecutiveLoop(seq, i, groups) ==
    IF i > Len(seq) THEN groups
    ELSE IF groups # <<>> /\ groups[Len(groups)].key = seq[i].format
         THEN ConsecutiveLoop(seq, i + 1,
                  [groups EXCEPT ![Len(groups)].items = Append(@, seq[i])])
         ELSE ConsecutiveLoop(seq, i + 1,
                  Append(groups, [key |-> seq[i].format, items |-> <<seq[i]>>]))

groupby_consecutive(seq) == ConsecutiveLoop(seq, 1, <<>>)

groupby(seq) == GroupLoop(seq, 1, <<>>)

\* a < b on the sort keys, attrgetter('startDate')
KeyLt(a, b) == Date__lt__(a.startDate, b.startDate)

RECURSIVE RunLength(_, _, _)
RunLength(a, n, descending) ==
    IF n = Len(a) THEN n
    ELSE IF KeyLt(a[n + 1], a[n]) = descending
         THEN RunLength(a, n + 1, descending)
         ELSE n

count_run(a) ==
    IF Len(a) = 1 THEN [n |-> 1, descending |-> FALSE]
    ELSE LET descending == KeyLt(a[2], a[1])
         IN [n |-> RunLength(a, 2, descending), descending |-> descending]

reverse_slice(a, n) ==
    [i \in 1..Len(a) |-> IF i <= n THEN a[n + 1 - i] ELSE a[i]]

RECURSIVE BinarySearch(_, _, _, _)
BinarySearch(a, pivot, l, r) ==
    IF l >= r THEN l
    ELSE LET p == l + ((r - l) \div 2)
         IN IF KeyLt(pivot, a[p])
            THEN BinarySearch(a, pivot, l, p)
            ELSE BinarySearch(a, pivot, p + 1, r)

RECURSIVE binarysort(_, _)
binarysort(a, start) ==
    IF start > Len(a) THEN a
    ELSE LET pivot == a[start]
             l == BinarySearch(a, pivot, 1, start)
             moved == [i \in 1..Len(a) |->
                          IF i < l THEN a[i]
                          ELSE IF i = l THEN pivot
                          ELSE IF i <= start THEN a[i - 1]
                          ELSE a[i]]
         IN binarysort(moved, start + 1)

sorted(a) ==
    IF Len(a) < 2 THEN a
    ELSE LET run == count_run(a)
             lo == IF run.descending THEN reverse_slice(a, run.n) ELSE a
         IN binarysort(lo, run.n + 1)

FormatOrUnknown(format) ==
    IF format = None \/ format[1] = <<>> THEN Unknown ELSE format[1]

Replace(s) == [i \in 1..Len(s) |-> IF s[i] = "_" THEN " " ELSE s[i]]

HeaderLine(s, y) == [kind |-> "header", season |-> MediaSeasonValue(s), year |-> y]
FormatLine(format) == [kind |-> "format", label |-> Replace(FormatOrUnknown(format))]
ItemLine(media) == [kind |-> "item", id |-> media.id, title |-> media.title]

RECURSIVE ItemLines(_, _)
ItemLines(seq, i) ==
    IF i > Len(seq) THEN <<>>
    ELSE <<ItemLine(seq[i])>> \o ItemLines(seq, i + 1)

RECURSIVE GroupLines(_, _)
GroupLines(groups, i) ==
    IF i > Len(groups) THEN <<>>
    ELSE <<FormatLine(groups[i].key)>>
         \o ItemLines(sorted(groups[i].items), 1)
         \o GroupLines(groups, i + 1)

SummaryLines(ms, s, y) == <<HeaderLine(s, y)>> \o GroupLines(groupby(ms), 1)

(***************************************************************************)
(* get_userlist and user_progress.                                         *)
(***************************************************************************)
UserResponse(status, json, data) == [status |-> status, json |-> json, data |-> data]

\* requests.Response.raise_for_status raises for 4xx and 5xx only
RaisesForStatus(status) == 400 <= status /\ status < 600

RECURSIVE concat(_, _)
concat(lists, i) ==
    IF i > Len(lists) THEN <<>>
    ELSE lists[i] \o concat(lists, i + 1)

\* what get_userlist prints before it returns or raises
UserlistPrints(resp) ==
    IF resp.status # 200 /\ resp.json THEN <<[kind |-> "body", body |-> resp]>>
    ELSE <<>>

\* whether get_userlist raises: print(req.json()) on a body that is not JSON,
\* raise_for_status(), or the decoding of data.MediaListCollection
UserlistRaises(resp) ==
    IF resp.status # 200 /\ ~resp.json THEN TRUE
    ELSE IF resp.status # 200 /\ RaisesForStatus(resp.status) THEN TRUE
    ELSE IF ~resp.json THEN TRUE
    ELSE IF resp.data = None THEN TRUE
    ELSE FALSE

\* a variant of ProgressLoop that tests the position in the list, not the id
RECURSIVE ProgressLoopByPosition(_, _, _, _, _)
ProgressLoopByPosition(ms, i, user_media_ids, w, r) ==
    IF i > Len(ms) THEN [watched |-> w, remaining |-> r]
    ELSE IF i \in user_media_ids
         THEN ProgressLoopByPosition(ms, i + 1, user_media_ids, Append(w, ms[i]), r)
         ELSE ProgressLoopByPosition(ms, i + 1, user_media_ids, w, Append(r, ms[i]))

RECURSIVE ProgressLoop(_, _, _, _, _)
ProgressLoop(ms, i, user_media_ids, w, r) ==
    IF i > Len(ms) THEN [watched |-> w, remaining |-> r]
    ELSE IF ms[i].id \in user_media_ids
         THEN ProgressLoop(ms, i + 1, user_media_ids, Append(w, ms[i]), r)
         ELSE ProgressLoop(ms, i + 1, user_media_ids, w, Append(r, ms[i]))

WatchedLine(media) == [kind |-> "watched", title |-> media.title]
RemainingLine(media) == [kind |-> "remaining", title |-> media.title, id |-> media.id]

RECURSIVE WatchedLines(_, _)
WatchedLines(seq, i) ==
    IF i > Len(seq) THEN <<>>
    ELSE <<WatchedLine(seq[i])>> \o WatchedLines(seq, i + 1)

RECURSIVE RemainingLines(_, _)
RemainingLines(seq, i) ==
    IF i > Len(seq) THEN <<>>
    ELSE <<RemainingLine(seq[i])>> \o RemainingLines(seq, i + 1)

ProgressLines(w, r) ==
    <<[kind |-> "Watched:"]>> \o WatchedLines(w, 1)
    \o <<[kind |-> "Remaining:"]>> \o RemainingLines(r, 1)

(***************************************************************************)
(* Input domains.                                                          *)
(***************************************************************************)
SeqsUpTo(S, n) == UNION {[1..k -> S] : k \in 0..n}

OptYears == {None} \cup {Some(2019 + k) : k \in 1..NumYears}
OptMonths == {None} \cup {Some(k) : k \in 1..NumMonths}
OptDays == {None} \cup {Some(k) : k \in 1..NumDays}
DateValues == {Date(y, m, d) : y \in OptYears, m \in OptMonths, d \in OptDays}

NoDate == Date(None, None, None)

\* the medias a server page is drawn from when the filter is checked
FilterMedias ==
    {Media(1, NoDate, a, e, "T", f) :
        a \in BOOLEAN,
        e \in {<<>>, <<"PREQUEL">>, <<"SEQUEL">>, <<"SIDE_STORY">>,
               <<"SIDE_STORY", "SEQUEL">>},
        f \in {None, Some(TV), Some(MOVIE), Some(OVA), Some(SPECIAL), Some(MUSIC)}}

\* the season md_summary is checked on
SummaryCatalog ==
    {Media(1, Date(Some(2021), Some(1), Some(1)), FALSE, <<>>, "A", Some(TV)),
     Media(2, Date(Some(2020), Some(5), Some(1)), FALSE, <<"SIDE_STORY">>, "B", Some(TV)),
     Media(3, NoDate, FALSE, <<>>, "C", None),
     Media(4, Date(Some(2021), None, None), FALSE, <<>>, "D", Some(TV_SHORT)),
     Media(5, Date(Some(2021), Some(1), Some(1)), FALSE, <<>>, "E", Some(MOVIE))}

\* the season user_progress is checked on
ProgressCatalog ==
    {Media(1, NoDate, FALSE, <<>>, "A", Some(TV)),
     Media(2, NoDate, FALSE, <<>>, "B", Some(TV)),
     Media(3, NoDate, FALSE, <<>>, "C", None)}

MediaEntry(mediaId) == [mediaId |-> mediaId]

RECURSIVE TotalLen(_, _)
TotalLen(lists, i) ==
    IF i > Len(lists) THEN 0 ELSE Len(lists[i]) + TotalLen(lists, i + 1)

UserLists ==
    {ls \in SeqsUpTo(SeqsUpTo({MediaEntry(2), MediaEntry(9)}, MaxEntries), MaxLists) :
        TotalLen(ls, 1) <= MaxEntries}

UserResponses ==
    {UserResponse(st, FALSE, None) : st \in {200, 201, 304, 404, 500}}
    \cup {UserResponse(st, TRUE, None) : st \in {200, 201, 304, 404, 500}}
    \cup {UserResponse(st, TRUE, Some(ls)) :
            st \in {200, 201, 304, 404, 500}, ls \in UserLists}

(***************************************************************************)
(* The commands.                                                           *)
(***************************************************************************)
\* md_summary / user_progress: year, season = get_season(year, season)
Start ==
    /\ pc = "start"
    /\ year' = Some(get_season_year(argYear, nowYear, nowMonth))
    /\ season' = Some(get_season_season(argSeason, nowMonth))
    /\ pc' = "get_anime"
    /\ UNCHANGED <<inputVars, animeVars, userVars, out, dateVars>>

\* a variant of PageOfCall whose recursive call repeats the caller's page
PageOfCallRepeated(frames) ==
    IF frames = <<>> THEN 1 ELSE frames[Len(frames)].page

\* the page a call of get_anime requests: 1 for the command's call, the
\* caller's page + 1 for a recursive call
PageOfCall(frames) ==
    IF frames = <<>> THEN 1 ELSE frames[Len(frames)].page + 1

RECURSIVE Served(_, _)
Served(pages, i) ==
    IF i > Len(pages) THEN 0 ELSE Len(pages[i].media) + Served(pages, i + 1)

\* one call of get_anime: the request, the response, the filter loop, and
\* either the recursive call (left pending on the stack) or the return
\* through every pending frame
GetAnime(catalog, maxMedia, maxPages) ==
    /\ pc = "get_anime"
    /\ Len(stack) < maxPages
    /\ \E hasNextPage \in BOOLEAN,
          media \in SeqsUpTo(catalog, maxMedia - Served(responses, 1)) :
          LET page == PageOfCall(stack)
              kept == FilterPage(media)
          IN /\ requests' = Append(requests,
                    [page |-> page, season |-> season[1], year |-> year[1]])
             /\ responses' = Append(responses, AnimePage(hasNextPage, media))
             /\ IF hasNextPage
                THEN /\ stack' = Append(stack, [page |-> page, medias |-> kept])
                     /\ UNCHANGED <<medias, pc>>
                ELSE /\ stack' = <<>>
                     /\ medias' = Unwind(stack, kept)
                     /\ pc' = "fetched"
    /\ UNCHANGED <<inputVars, year, season, userVars, out, dateVars>>

\* md_summary after get_anime returned: group, sort, print
MdSummaryPrint ==
    /\ cmd = "md_summary"
    /\ pc = "fetched"
    /\ out' = out \o SummaryLines(medias, season[1], year[1])
    /\ pc' = "done"
    /\ UNCHANGED <<inputVars, year, season, animeVars, userVars, dateVars>>

\* user_progress: user_list = get_userlist(username)
GetUserlist ==
    /\ cmd = "user_progress"
    /\ pc = "fetched"
    /\ \E resp \in UserResponses :
          /\ userResp' = Some(resp)
          /\ out' = out \o UserlistPrints(resp)
          /\ IF UserlistRaises(resp)
             THEN /\ pc' = "raised"
                  /\ UNCHANGED userList
             ELSE /\ pc' = "listed"
                  /\ userList' = concat(resp.data[1], 1)
    /\ UNCHANGED <<inputVars, year, season, animeVars, watched, remaining, dateVars>>

\* user_progress after get_userlist returned: split and print
UserProgressPrint ==
    /\ cmd = "user_progress"
    /\ pc = "listed"
    /\ LET user_media_ids == {userList[i].mediaId : i \in 1..Len(userList)}
           split == ProgressLoop(medias, 1, user_media_ids, <<>>, <<>>)
       IN /\ watched' = split.watched
          /\ remaining' = split.remaining
          /\ out' = out \o ProgressLines(split.watched, split.remaining)
    /\ pc' = "done"
    /\ UNCHANGED <<inputVars, year, season, animeVars, userResp, userList, dateVars>>

\* a < b, a == b for every pair of the three dates
Compare ==
    /\ cmp = None
    /\ cmp' = Some([lt |-> [i \in 1..3 |-> [j \in 1..3 |-> Date__lt__(dates[i], dates[j])]],
                    eq |-> [i \in 1..3 |-> [j \in 1..3 |-> Date__eq__(dates[i], dates[j])]]])
    /\ UNCHANGED <<inputVars, pc, year, season, animeVars, userVars, out, dates>>

(***************************************************************************)
(* Specifications.                                                         *)
(***************************************************************************)
InitRun ==
    /\ pc = "start"
    /\ year = None
    /\ season = None
    /\ requests = <<>>
    /\ responses = <<>>
    /\ stack = <<>>
    /\ medias = <<>>
    /\ userResp = None
    /\ userList = <<>>
    /\ watched = <<>>
    /\ remaining = <<>>
    /\ out = <<>>

InitNoDates ==
    /\ dates = <<NoDate, NoDate, NoDate>>
    /\ cmp = None

\* md_summary over the summary catalog
Init ==
    /\ cmd = "md_summary"
    /\ \E now \in {<<2024, 12>>, <<2025, 7>>} :
          nowYear = now[1] /\ nowMonth = now[2]
    /\ \E arg \in {<<None, None>>, <<Some(2020), Some("FALL")>>} :
          argYear = arg[1] /\ argSeason = arg[2]
    /\ InitRun
    /\ InitNoDates

Next ==
    \/ Start
    \/ GetAnime(SummaryCatalog, MaxMedia, MaxPages)
    \/ MdSummaryPrint

Spec == Init /\ [][Next]_vars

\* the first page of get_anime over every kind of media
InitFilter ==
    /\ cmd = "md_summary"
    /\ nowYear = 2025
    /\ nowMonth = 7
    /\ argYear = None
    /\ argSeason = None
    /\ InitRun
    /\ InitNoDates

NextFilter ==
    \/ Start
    \/ GetAnime(FilterMedias, MaxFilterLen, 1)

SpecFilter == InitFilter /\ [][NextFilter]_vars

\* get_season at every month, with and without options
InitSeason ==
    /\ cmd \in {"md_summary", "user_progress"}
    /\ nowYear \in {2024, 2025}
    /\ nowMonth \in 1..12
    /\ argYear \in {None, Some(2020)}
    /\ argSeason \in {None} \cup {Some(s) : s \in MediaSeason}
    /\ InitRun
    /\ InitNoDates

NextSeason == Start

SpecSeason == InitSeason /\ [][NextSeason]_vars

\* user_progress over a one-page season
InitProgress ==
    /\ cmd = "user_progress"
    /\ nowYear = 2025
    /\ nowMonth = 7
    /\ argYear = None
    /\ argSeason = None
    /\ InitRun
    /\ InitNoDates

NextProgress ==
    \/ Start
    \/ GetAnime(ProgressCatalog, MaxMedia, 1)
    \/ GetUserlist
    \/ UserProgressPrint

SpecProgress == InitProgress /\ [][NextProgress]_vars

\* Date comparison over every triple of dates
InitDate ==
    /\ cmd = "md_summary"
    /\ nowYear = 2025
    /\ nowMonth = 7
    /\ argYear = None
    /\ argSeason = None
    /\ InitRun
    /\ dates \in DateValues \X DateValues \X DateValues
    /\ cmp = None

NextDate == Compare

SpecDate == InitDate /\ [][NextDate]_vars

(***************************************************************************)
(* Properties.                                                             *)
(***************************************************************************)
\* what the filter is to keep: format not MOVIE, OVA, SPECIAL or MUSIC,
\* not adult, no relation edge of type PREQUEL or SEQUEL
Keeps(m) ==
    /\ m.format \notin {Some(MOVIE), Some(OVA), Some(SPECIAL), Some(MUSIC)}
    /\ m.isAdult = FALSE
    /\ \A i \in 1..Len(m.relations) : m.relations[i] \notin {"PREQUEL", "SEQUEL"}

Returned == pc \in {"fetched", "listed", "raised", "done"}

\* the filtered medias of the first page, pending on the stack or returned
KeptOfFirstPage == IF stack # <<>> THEN stack[1].medias ELSE medias

\* C1: the per-page filter of get_anime keeps exactly the items whose format
\* is not MOVIE, OVA, SPECIAL or MUSIC, that are not adult and have no
\* PREQUEL or SEQUEL relation edge, in the page's order (items of missing
\* format included).
C1_FilterKeepsExactly ==
    responses # <<>> => KeptOfFirstPage = SelectSeq(responses[1].media, Keeps)

C1_Witness ==
    /\ responses # <<>>
    /\ Len(responses[1].media) = 2
    /\ responses[1].media[1].format = Some(MUSIC)
    /\ responses[1].media[2].format = None
    /\ responses[1].media[2].relations = <<"SIDE_STORY">>
    /\ ~responses[1].media[2].isAdult
    /\ KeptOfFirstPage = <<responses[1].media[2]>>

RECURSIVE ConcatOfFilters(_, _)
ConcatOfFilters(pages, i) ==
    IF i > Len(pages) THEN <<>>
    ELSE SelectSeq(pages[i].media, Keeps) \o ConcatOfFilters(pages, i + 1)

\* C2: when page n is the first to report hasNextPage = false, get_anime
\* returns filter(page 1) \o ... \o filter(page n).
C2_ReturnsConcatenation ==
    Returned => medias = ConcatOfFilters(responses, 1)

C2_Witness ==
    /\ pc = "fetched"
    /\ Len(responses) = 2
    /\ Len(responses[1].media) = 2
    /\ Len(responses[2].media) = 1
    /\ Len(medias) = 3
    /\ medias[1] # medias[3]

\* C3: get_anime requests pages 1, 2, ..., n in that order, one at a time,
\* all with the season and year of the command; n is the first page whose
\* response reports hasNextPage = false; nothing is requested after it, and
\* the call returns exactly then.
C3_PagesInOrderUntilLast ==
    /\ Len(requests) = Len(responses)
    /\ \A i \in 1..Len(requests) :
          /\ requests[i].page = i
          /\ requests[i].season = season[1]
          /\ requests[i].year = year[1]
    /\ \A i \in 1..(Len(responses) - 1) : responses[i].hasNextPage
    /\ Returned <=> (responses # <<>> /\ ~responses[Len(responses)].hasNextPage)

C3_Witness ==
    /\ pc = "fetched"
    /\ Len(requests) = 3
    /\ requests[3].page = 3

\* C4: get_season returns the supplied year, or the current year plus one
\* in December and the current year otherwise; and the supplied season, or
\* WINTER for months 12 and 1, SPRING for 2..4, SUMMER for 5..7, FALL for
\* 8..11; each independently of whether the other was supplied.
C4_SeasonInference ==
    pc = "get_anime" =>
        /\ year = Some(IF argYear # None THEN argYear[1]
                       ELSE IF nowMonth = 12 THEN nowYear + 1
                       ELSE nowYear)
        /\ season = Some(IF argSeason # None THEN argSeason[1]
                         ELSE IF nowMonth \in {12, 1} THEN "WINTER"
                         ELSE IF nowMonth \in 2..4 THEN "SPRING"
                         ELSE IF nowMonth \in 5..7 THEN "SUMMER"
                         ELSE "FALL")

C4_Witness ==
    /\ pc = "get_anime"
    /\ nowMonth = 12
    /\ argYear = None
    /\ argSeason = Some("FALL")
    /\ year = Some(nowYear + 1)
    /\ season = Some("FALL")

InUserList(m) == \E i \in 1..Len(userList) : userList[i].mediaId = m.id
NotInUserList(m) == ~InUserList(m)

\* C5: watched holds exactly the season medias whose id is the mediaId of
\* some user entry, remaining the others, each in the season list's order.
C5_WatchedRemainingPartition ==
    pc = "done" =>
        /\ watched = SelectSeq(medias, InUserList)
        /\ remaining = SelectSeq(medias, NotInUserList)
        /\ Len(watched) + Len(remaining) = Len(medias)

C5_Witness ==
    /\ pc = "done"
    /\ Len(medias) = 3
    /\ <<medias[1].id, medias[2].id, medias[3].id>> = <<1, 2, 3>>
    /\ Len(watched) = 1
    /\ watched[1].id = 2
    /\ Len(remaining) = 2
    /\ <<remaining[1].id, remaining[2].id>> = <<1, 3>>

\* C6: on a JSON response whose status is not 2xx, get_userlist prints the
\* body and raises: no entries are returned and neither "Watched:" nor
\* "Remaining:" is printed; on a 2xx status it prints nothing and returns
\* the entries of all lists, flattened in list order.
C6_NonSuccessRaises ==
    (userResp # None /\ userResp[1].json) =>
        LET resp == userResp[1]
        IN IF resp.status \in 200..299
           THEN /\ \A i \in 1..Len(out) : out[i].kind # "body"
                /\ resp.data # None =>
                      /\ pc \in {"listed", "done"}
                      /\ userList = concat(resp.data[1], 1)
           ELSE /\ pc = "raised"
                /\ out = <<[kind |-> "body", body |-> resp]>>
                /\ userList = <<>>

SummaryMedia(id) == CHOOSE m \in SummaryCatalog : m.id = id

\* the position of the sub-header an item line is printed under (0: none)
SubHeaderOf(p) ==
    LET before == {q \in 1..(p - 1) : out[q].kind = "format"}
    IN IF before = {} THEN 0
       ELSE CHOOSE q \in before : \A r \in before : r <= q

ItemPositions == {p \in 1..Len(out) : out[p].kind = "item"}
FormatPositions == {p \in 1..Len(out) : out[p].kind = "format"}

\* C7: md_summary prints the season header first, then one sub-header per
\* distinct format of the filtered list ("Unknown" for a missing format),
\* and every filtered media in exactly one checklist line, under the
\* sub-header of its own format, with its id and preferred title.
C7_GroupedByFormat ==
    pc = "done" =>
        /\ out[1].kind = "header"
        /\ out[1].year = year[1]
        /\ \A p \in 2..Len(out) : out[p].kind \in {"format", "item"}
        /\ \A p \in ItemPositions : SubHeaderOf(p) # 0
        /\ \A p \in FormatPositions :
              \E q \in ItemPositions : SubHeaderOf(q) = p
        /\ \A p, q \in ItemPositions :
              (SubHeaderOf(p) = SubHeaderOf(q))
                <=> (SummaryMedia(out[p].id).format = SummaryMedia(out[q].id).format)
        /\ \A p \in ItemPositions :
              (out[SubHeaderOf(p)].label = Unknown)
                <=> (SummaryMedia(out[p].id).format = None)
        /\ \A m \in SummaryCatalog :
              Cardinality({p \in ItemPositions :
                              out[p].id = m.id /\ out[p].title = m.title})
                = Cardinality({i \in 1..Len(medias) : medias[i] = m})
        /\ Cardinality(ItemPositions) = Len(medias)

C7_Witness ==
    /\ pc = "done"
    /\ Len(medias) = 1
    /\ medias[1].format = None
    /\ Len(out) = 3
    /\ out[2] = [kind |-> "format", label |-> Unknown]
    /\ out[3] = [kind |-> "item", id |-> medias[1].id, title |-> medias[1].title]

\* a component of a date, a missing one counting as earliest
Component(c) == IF c = None THEN 0 ELSE c[1]

\* a is earlier than b by (year, month, day)
Earlier(a, b) ==
    \/ Component(a.year) < Component(b.year)
    \/ /\ Component(a.year) = Component(b.year)
       /\ Component(a.month) < Component(b.month)
    \/ /\ Component(a.year) = Component(b.year)
       /\ Component(a.month) = Component(b.month)
       /\ Component(a.day) < Component(b.day)

\* C8: within every format group the checklist lines are printed by start
\* date ascending: of two medias of a group, the earlier one by (year,
\* month, day) is printed first.
C8_GroupsSortedByStartDate ==
    pc = "done" =>
        \A p, q \in ItemPositions :
            (p < q /\ SubHeaderOf(p) = SubHeaderOf(q)) =>
                ~Earlier(SummaryMedia(out[q].id).startDate,
                         SummaryMedia(out[p].id).startDate)

FullySpecified(d) == d.year # None /\ d.month # None /\ d.day # None

\* C9: on fully-specified dates A < B holds exactly when A precedes B
\* lexicographically by (year, month, day).
C9_LexicographicOnFullDates ==
    cmp # None =>
        \A i, j \in 1..3 :
            (FullySpecified(dates[i]) /\ FullySpecified(dates[j])) =>
                (cmp[1].lt[i][j] <=> Earlier(dates[i], dates[j]))

\* C10: Date comparison is a strict total order: irreflexive, asymmetric,
\* transitive, and exactly one of A < B, A == B, B < A holds.
C10_StrictTotalOrder ==
    cmp # None =>
        LET lt == cmp[1].lt
            eq == cmp[1].eq
        IN /\ \A i \in 1..3 : ~lt[i][i]
           /\ \A i, j \in 1..3 : ~(lt[i][j] /\ lt[j][i])
           /\ \A i, j, k \in 1..3 : (lt[i][j] /\ lt[j][k]) => lt[i][k]
           /\ \A i, j \in 1..3 :
                 /\ lt[i][j] \/ eq[i][j] \/ lt[j][i]
                 /\ ~(lt[i][j] /\ eq[i][j])
                 /\ ~(eq[i][j] /\ lt[j][i])

=============================================================================
